---- MODULE Spec2Model ----
(***************************************************************************)
(* Weather dashboard: the WeatherDashboard component (its state, its       *)
(* fetchWeather classification logic, the toast queue) and the serverless  *)
(* proxy handler api/weather.js.                                           *)
(*                                                                         *)
(* WeatherDashboard.tsx holds two definitions of the component: lines      *)
(* 1-516 (every request goes straight to the provider) and lines 517-1079  *)
(* (loopback hosts go direct, every other host goes through /api/weather). *)
(* `mounted` says which of the two is running.                             *)
(*                                                                         *)
(* Strings the code trims or URL-encodes are sequences of one-character    *)
(* strings; other strings (messages, hosts, keys) are TLA+ strings.        *)
(* One action is one run-to-completion step of the event loop: a handler,  *)
(* or the continuation of fetchWeather after one of its two awaits; the    *)
(* state setters called in one step take effect together.                  *)
(*                                                                         *)
(* Specifications: Spec is the search flow in every deployment, SpecPage   *)
(* adds the locate button and page reloads on one deployed page, SpecFair  *)
(* is the search flow of that page with fair timers and answers, SpecProxy *)
(* is the handler alone, SpecPresentation the presentation functions.      *)
(***************************************************************************)
EXTENDS Integers, Sequences, FiniteSets, TLC

VARIABLES
    mounted,        \* 1: the component of lines 192-516, 2: the one of lines 694-1079
    location,       \* window.location: [protocol, hostname]
    env,            \* process.env.WEATHER_KEY of the proxy's server
    localStorage,   \* the item weather_last_city: NoItem or Item(chars)
    weather,        \* useState<WeatherData | null>
    loading,        \* useState(false)
    query,          \* useState('')
    toasts,         \* useState<Toast[]>([])
    timers,         \* the pending 5 s timeouts of the mounted ToastNotifications:
                    \* key -> [set], set counting the setTimeout calls of that
                    \* instance (1 at mount, one more each time its effect re-runs)
    locating,       \* useState(false)
    navigator,      \* the browser: [geolocation], whether navigator.geolocation exists
    geoRequest,     \* the getCurrentPosition call: "none" or "pending"
    nLocates,       \* number of handleLocateMe invocations since the page loaded
    now,            \* the latest reading of Date.now()
    effect,         \* the init effect: "pending" until it has run, then "done"
    calls,          \* fetchWeather invocations suspended at an await:
                    \* id -> [q, url, pc, overtaken]; overtaken (history) says that
                    \* another invocation has set weather since this one started
    nCalls,         \* number of fetchWeather invocations since the page loaded
                    \* (the next id is nCalls + 1)
    nRequests,      \* number of fetch(url) calls issued since the page loaded
    last,           \* what the latest step of fetchWeather did (history)
    invocations,    \* invocations of the proxy handler:
                    \* id -> [param, pc, upstream, outcome, response]
    nInvocations,   \* number of invocations of the proxy handler so far
    current,        \* the `current` object of a payload handed to the presentation
                    \* functions: [uv_index, humidity, weather_descriptions, is_day]
    view            \* what the render derived from `current`: [uv, humidity, gradient]

geoVars == <<navigator, geoRequest, nLocates>>
clientVars == <<mounted, location, localStorage, weather, loading, query, toasts,
                timers, locating, geoVars, now, effect, calls, nCalls, nRequests, last>>
proxyVars == <<invocations, nInvocations>>
viewVars == <<current, view>>
vars == <<clientVars, env, proxyVars, viewVars>>

(***************************************************************************)
(* Bounds                                                                  *)
(***************************************************************************)
MaxCalls == 2           \* fetchWeather invocations on one page
MaxLocates == 1         \* handleLocateMe invocations on one page
MaxInvocations == 2     \* invocations of the proxy handler in one behaviour
MaxUv == 30             \* largest uv_index handed to getUvLabel
MaxHumidity == 100      \* largest humidity (a percentage) rendered

(***************************************************************************)
(* JavaScript values                                                       *)
(***************************************************************************)
Null == [kind |-> "null"]
Undefined == "<undefined>"      \* a missing property / unset environment variable

NoItem == [present |-> FALSE]
Item(s) == [present |-> TRUE, value |-> s]

Whitespace == {" "}

RECURSIVE TrimStart(_)
TrimStart(s) ==
    IF s # <<>> /\ Head(s) \in Whitespace THEN TrimStart(Tail(s)) ELSE s

RECURSIVE TrimEnd(_)
TrimEnd(s) ==
    IF s # <<>> /\ s[Len(s)] \in Whitespace
    THEN TrimEnd(SubSeq(s, 1, Len(s) - 1))
    ELSE s

\* String.prototype.trim
Trim(s) == TrimEnd(TrimStart(s))

\* encodeURIComponent, one character at a time: letters stay, the rest is escaped
EncodeChar(c) ==
    CASE c = " " -> "%20"
      [] c = "," -> "%2C"
      [] OTHER   -> c

encodeURIComponent(s) == [i \in 1..Len(s) |-> EncodeChar(s[i])]

\* the server's parsing of the query string into req.query
DecodeChar(c) ==
    CASE c = "%20" -> " "
      [] c = "%2C" -> ","
      [] OTHER     -> c

decodeURIComponent(s) == [i \in 1..Len(s) |-> DecodeChar(s[i])]

(***************************************************************************)
(* Response bodies                                                         *)
(***************************************************************************)
\* a WeatherData body: it has no `success` property
WeatherData(name) == [kind |-> "object", location |-> [name |-> name]]

\* an ApiError envelope; info may be Undefined (the property is missing)
ApiError(code, type, info) ==
    [kind |-> "object", success |-> FALSE,
     error |-> [code |-> code, type |-> type, info |-> info]]

\* a body with success:false and no `error` property
BareFailure == [kind |-> "object", success |-> FALSE]

Codes == {615, 101, 601}
Infos == {Undefined, "", "Your monthly usage limit has been reached."}

\* what the provider's JSON can parse to for the query q: the conditions at q,
\* an error envelope, or an envelope without its `error`
UpstreamBodies(q) ==
    {WeatherData(Trim(q))}
      \cup {ApiError(c, "provider_error", i) : c \in Codes, i \in Infos}
      \cup {BareFailure}

(***************************************************************************)
(* api/weather.js                                                          *)
(***************************************************************************)
NoParam == [present |-> FALSE]
Param(s) == [present |-> TRUE, value |-> s]

\* !query for req.query.query: missing, or the empty string
MissingQuery(param) == ~param.present \/ param.value = <<>>

\* !API_KEY for process.env.WEATHER_KEY: unset, or the empty string
MissingKey(key) == key = Undefined \/ key = ""

UpstreamUrl(key, q) ==
    [path |-> "http://api.weatherstack.com/current",
     access_key |-> key, query |-> encodeURIComponent(q)]

NoHeaders == {}
CacheControl == <<"Cache-Control", "s-maxage=300, stale-while-revalidate=600">>

BadRequest ==
    [status |-> 400, headers |-> NoHeaders,
     body |-> ApiError(0, "bad_request", "Missing \"query\" parameter.")]

ServerError ==
    [status |-> 500, headers |-> NoHeaders,
     body |-> ApiError(0, "server_error", "API key not configured on server.")]

ProxyError ==
    [status |-> 502, headers |-> NoHeaders,
     body |-> ApiError(0, "proxy_error", "Failed to reach Weatherstack API.")]

\* res.setHeader('Cache-Control', ...); res.status(200).json(data)
Relay(data) == [status |-> 200, headers |-> {CacheControl}, body |-> data]

NoResponse == [status |-> 0]

\* mutant: the credential is checked before the parameter
handlerGuard_keyFirst(param, key) ==
    IF MissingKey(key) THEN ServerError
    ELSE IF MissingQuery(param) THEN BadRequest
    ELSE NoResponse

\* mutant: the credential is not checked
handlerGuard_noKeyCheck(param, key) ==
    IF MissingQuery(param) THEN BadRequest ELSE NoResponse

\* lines 2-12: the response sent before any upstream call, or NoResponse
handlerGuard(param, key) ==
    IF MissingQuery(param) THEN BadRequest
    ELSE IF MissingKey(key) THEN ServerError
    ELSE NoResponse

\* every response one invocation of the handler can end with
handlerResponses(param, key) ==
    IF handlerGuard(param, key) # NoResponse
    THEN {handlerGuard(param, key)}
    ELSE {Relay(d) : d \in UpstreamBodies(param.value)} \cup {ProxyError}

(***************************************************************************)
(* WeatherDashboard: helpers                                               *)
(***************************************************************************)
API_KEY == "vite-key"           \* import.meta.env.VITE_WEATHER_KEY

ProxyUrl(q) == [path |-> "/api/weather", query |-> encodeURIComponent(q)]

isLocal == location.hostname = "localhost" \/ location.hostname = "127.0.0.1"

\* the url fetchWeather builds for q
requestUrl(q) ==
    IF mounted = 1 THEN UpstreamUrl(API_KEY, q)
    ELSE IF isLocal THEN UpstreamUrl(API_KEY, q)
    ELSE ProxyUrl(q)

\* setToasts((prev) => [...prev, { id: Date.now(), message, type }]), where
\* Date.now() reads t
addToast(prev, t, message, type) ==
    Append(prev, [id |-> t, message |-> message, type |-> type])

\* setToasts((prev) => prev.filter((t) => t.id !== id))
removeToast(prev, id) == SelectSeq(prev, LAMBDA t : t.id # id)

\* the keys of the ToastNotifications rendered for a queue: key={t.id}
Keys(queue) == {queue[i].id : i \in DOMAIN queue}

\* mutant: removeToast is a new function at every render
onCloseStable_perRender == FALSE

\* removeToast is memoised with no dependencies (useCallback(..., [])), so the
\* onClose prop is the same function at every render
onCloseStable == TRUE

\* the effect of a mounted ToastNotification re-runs when one of its
\* dependencies [toast.id, onClose] changed; toast.id is the key, which an
\* instance keeps
effectReruns == ~onCloseStable

\* the timeouts after the render of a new queue: an instance that stays mounted
\* keeps its timeout unless its effect re-runs (clearTimeout, setTimeout), a
\* new instance sets one, an unmounted one clears its own
renderToasts(prev, queue) ==
    [k \in Keys(queue) |->
        IF k \in DOMAIN prev
        THEN IF effectReruns THEN [set |-> prev[k].set + 1] ELSE prev[k]
        ELSE [set |-> 1]]

MixedContentMsg ==
    "Weatherstack free tier uses HTTP. Your browser may block this request on HTTPS. Run locally or use a proxy."
NotFoundMsg == "City not found. Please check the name and try again."
InvalidKeyMsg == "Invalid API key. Please check your .env configuration."
UnknownErrorMsg == "An unknown API error occurred."
FailedMsg == "Failed to fetch weather data. Please try again."
NetworkErrorMsg ==
    "Network error - the request was likely blocked due to mixed content (HTTP on HTTPS). Try running on localhost."
UnsupportedMsg == "Geolocation is not supported by your browser."
DeniedMsg == "Location access denied. Please allow location permissions."

\* Number.prototype.toString for the coordinates in Positions
NumberToString(n) ==
    IF n < 0 THEN <<"-">> \o <<ToString(0 - n)>> ELSE <<ToString(n)>>

\* `${pos.coords.latitude},${pos.coords.longitude}`
coordsOf(pos) ==
    NumberToString(pos.coords.latitude) \o <<",">> \o NumberToString(pos.coords.longitude)

\* data.success === false
isFailure(data) == "success" \in DOMAIN data /\ data.success = FALSE

\* reading err.error.code throws a TypeError when the body has no `error`
throwsOnRead(data) == isFailure(data) /\ "error" \notin DOMAIN data

\* mutant: err.error.info ?? 'An unknown API error occurred.'
infoOrFallback_nullish(info) ==
    IF info = Undefined THEN UnknownErrorMsg ELSE info

\* err.error.info || 'An unknown API error occurred.'
infoOrFallback(info) ==
    IF info = Undefined \/ info = "" THEN UnknownErrorMsg ELSE info

\* mutant: the provider's text wins over the fixed messages
errorMessage_infoFirst(err) ==
    IF err.error.info # Undefined /\ err.error.info # "" THEN err.error.info
    ELSE IF err.error.code = 615 THEN NotFoundMsg
    ELSE IF err.error.code = 101 THEN InvalidKeyMsg
    ELSE UnknownErrorMsg

\* mutant: an envelope with code 0 gets the message of the catch block
errorMessage_zeroIsFailure(err) ==
    IF err.error.code = 615 THEN NotFoundMsg
    ELSE IF err.error.code = 101 THEN InvalidKeyMsg
    ELSE IF err.error.code = 0 THEN FailedMsg
    ELSE infoOrFallback(err.error.info)

\* the message of the toast of the success === false branch
errorMessage(err) ==
    IF err.error.code = 615 THEN NotFoundMsg
    ELSE IF err.error.code = 101 THEN InvalidKeyMsg
    ELSE infoOrFallback(err.error.info)

\* thrown values: the rejection of fetch(url) is a TypeError whose message may
\* or may not contain 'fetch' (it does in Chrome and Firefox, not in Safari);
\* res.json() rejects with a SyntaxError; reading a missing `error` throws a
\* TypeError
FetchErrors ==
    {[name |-> "TypeError", mentionsFetch |-> b, from |-> "fetch"] : b \in BOOLEAN}
SyntaxError == [name |-> "SyntaxError", mentionsFetch |-> FALSE, from |-> "json"]
ReadError == [name |-> "TypeError", mentionsFetch |-> FALSE, from |-> "read"]

\* the message of the toast of the catch block
catchMessage(err) ==
    IF mounted = 1 /\ err.name = "TypeError" /\ err.mentionsFetch
    THEN NetworkErrorMsg
    ELSE FailedMsg

\* the bodies res.json() can resolve to for a request to url
ResponseBodies(url) ==
    IF url.path = "/api/weather"
    THEN {r.body : r \in handlerResponses(Param(decodeURIComponent(url.query)), env)}
    ELSE UpstreamBodies(decodeURIComponent(url.query))

(***************************************************************************)
(* Initial state: the component has rendered once, its init effect has not *)
(* run yet.  localStorage is readable and writable throughout.             *)
(***************************************************************************)
London == <<"L", "o", "n", "d", "o", "n">>

\* what the user can type into the search box
Inputs == {<<>>, <<" ">>, <<" ", "a", " ">>}

Loopback == [protocol |-> "http:", hostname |-> "localhost"]
LoopbackIp == [protocol |-> "http:", hostname |-> "127.0.0.1"]
Deployed == [protocol |-> "https:", hostname |-> "weather.example.app"]

\* which component runs where, and the WEATHER_KEY of the server behind
\* /api/weather.  Only the component of line 694 on a deployed page reaches that
\* server (elsewhere its key is left unset), and only it reads the hostname.
Deployments ==
    {[mounted |-> 1, location |-> l, env |-> Undefined] : l \in {Loopback, Deployed}}
      \cup {[mounted |-> 2, location |-> l, env |-> Undefined] :
              l \in {Loopback, LoopbackIp}}
      \cup {[mounted |-> 2, location |-> Deployed, env |-> k] :
              k \in {Undefined, "server-key"}}

\* browsers with and without the Geolocation API
Navigators == {[geolocation |-> b] : b \in BOOLEAN}

InitClient ==
    /\ weather = Null
    /\ loading = FALSE
    /\ query = <<>>
    /\ toasts = <<>>
    /\ timers = <<>>
    /\ locating = FALSE
    /\ geoRequest = "none"
    /\ nLocates = 0
    /\ now = 0
    /\ effect = "pending"
    /\ calls = <<>>
    /\ nCalls = 0
    /\ nRequests = 0
    /\ last = [op |-> "mount"]

InitProxy ==
    /\ invocations = <<>>
    /\ nInvocations = 0

\* nothing has been handed to the presentation functions
NoCurrent == [kind |-> "none"]
NoView == [kind |-> "none"]

InitView ==
    /\ current = NoCurrent
    /\ view = NoView

Init ==
    /\ \E d \in Deployments :
          /\ mounted = d.mounted
          /\ location = d.location
          /\ env = d.env
    /\ localStorage \in {NoItem, Item(<<"b">>)}
    /\ navigator = [geolocation |-> TRUE]
    /\ InitClient
    /\ InitProxy
    /\ InitView

(***************************************************************************)
(* fetchWeather                                                            *)
(***************************************************************************)
Suspend(id, rec) == [i \in DOMAIN calls \cup {id} |-> IF i = id THEN rec ELSE calls[i]]
Finish(id) == [i \in DOMAIN calls \ {id} |-> calls[i]]
Overtake(id) == [i \in DOMAIN calls \ {id} |-> [calls[i] EXCEPT !.overtaken = TRUE]]

\* addToast(message, type); Date.now() reads what it read last or something
\* later (ids are only compared with each other, so one step later stands for
\* any later reading)
enqueue(message, type) ==
    \E t \in {now, now + 1} :
        /\ now' = t
        /\ toasts' = addToast(toasts, t, message, type)
        /\ timers' = renderToasts(timers, toasts')

\* mutant: setWeather(null) is missing
fetchWeather_keepWeather(q) ==
    /\ nCalls < MaxCalls
    /\ nCalls' = nCalls + 1
    /\ IF Trim(q) = <<>>
       THEN /\ UNCHANGED <<loading, weather, toasts, timers, now, calls, nRequests>>
            /\ last' = [op |-> "fetchWeather", id |-> nCalls + 1, q |-> q, sent |-> FALSE]
       ELSE /\ loading' = TRUE
            /\ UNCHANGED weather
            /\ IF mounted = 1 /\ location.protocol = "https:"
               THEN enqueue(MixedContentMsg, "warning")
               ELSE UNCHANGED <<toasts, timers, now>>
            /\ calls' = Suspend(nCalls + 1, [q |-> q, url |-> requestUrl(q), pc |-> "fetch",
                                              overtaken |-> FALSE])
            /\ nRequests' = nRequests + 1
            /\ last' = [op |-> "fetchWeather", id |-> nCalls + 1, q |-> q, sent |-> TRUE]
    /\ UNCHANGED localStorage

\* mutant: the guard is `if (!q) return`, without trim()
fetchWeather_noTrim(q) ==
    /\ nCalls < MaxCalls
    /\ nCalls' = nCalls + 1
    /\ IF q = <<>>
       THEN /\ UNCHANGED <<loading, weather, toasts, timers, now, calls, nRequests>>
            /\ last' = [op |-> "fetchWeather", id |-> nCalls + 1, q |-> q, sent |-> FALSE]
       ELSE /\ loading' = TRUE
            /\ weather' = Null
            /\ IF mounted = 1 /\ location.protocol = "https:"
               THEN enqueue(MixedContentMsg, "warning")
               ELSE UNCHANGED <<toasts, timers, now>>
            /\ calls' = Suspend(nCalls + 1, [q |-> q, url |-> requestUrl(q), pc |-> "fetch",
                                              overtaken |-> FALSE])
            /\ nRequests' = nRequests + 1
            /\ last' = [op |-> "fetchWeather", id |-> nCalls + 1, q |-> q, sent |-> TRUE]
    /\ UNCHANGED localStorage

\* fetchWeather(q) up to its first await: the guard, the two setters, (in the
\* component of line 192) the mixed-content warning, and the call of fetch(url)
fetchWeather(q) ==
    /\ nCalls < MaxCalls
    /\ nCalls' = nCalls + 1
    /\ IF Trim(q) = <<>>
       THEN /\ UNCHANGED <<loading, weather, toasts, timers, now, calls, nRequests>>
            /\ last' = [op |-> "fetchWeather", id |-> nCalls + 1, q |-> q, sent |-> FALSE]
       ELSE /\ loading' = TRUE
            /\ weather' = Null
            /\ IF mounted = 1 /\ location.protocol = "https:"
               THEN enqueue(MixedContentMsg, "warning")
               ELSE UNCHANGED <<toasts, timers, now>>
            /\ calls' = Suspend(nCalls + 1, [q |-> q, url |-> requestUrl(q), pc |-> "fetch",
                                              overtaken |-> FALSE])
            /\ nRequests' = nRequests + 1
            /\ last' = [op |-> "fetchWeather", id |-> nCalls + 1, q |-> q, sent |-> TRUE]
    /\ UNCHANGED localStorage

\* mutant: there is no finally block, so a thrown error leaves loading raised
catch_noFinally(id, err) ==
    /\ enqueue(catchMessage(err), "error")
    /\ calls' = Finish(id)
    /\ last' = [op |-> "catch", id |-> id, q |-> calls[id].q, err |-> err]
    /\ UNCHANGED <<loading, weather, localStorage>>

\* mutant: the catch block swallows the error without a toast
catch_silent(id, err) ==
    /\ loading' = FALSE
    /\ calls' = Finish(id)
    /\ last' = [op |-> "catch", id |-> id, q |-> calls[id].q, err |-> err]
    /\ UNCHANGED <<toasts, timers, now, weather, localStorage>>

\* catch { addToast(...) } finally { setLoading(false) }
catch(id, err) ==
    /\ enqueue(catchMessage(err), "error")
    /\ loading' = FALSE
    /\ calls' = Finish(id)
    /\ last' = [op |-> "catch", id |-> id, q |-> calls[id].q, err |-> err]
    /\ UNCHANGED <<weather, localStorage>>

\* mutant: the `return` of the success === false branch is missing, so the
\* envelope is also stored as weather and the query persisted
apiError_fallthrough(id, data) ==
    /\ enqueue(errorMessage(data), "error")
    /\ weather' = data
    /\ localStorage' = Item(Trim(calls[id].q))
    /\ loading' = FALSE
    /\ calls' = Overtake(id)
    /\ last' = [op |-> "json", id |-> id, q |-> calls[id].q, data |-> data]

\* the branch of data.success === false: a toast, setLoading(false), return
\* (and the finally block)
apiError(id, data) ==
    /\ enqueue(errorMessage(data), "error")
    /\ loading' = FALSE
    /\ calls' = Finish(id)
    /\ last' = [op |-> "json", id |-> id, q |-> calls[id].q, data |-> data]
    /\ UNCHANGED <<weather, localStorage>>

\* mutant: a response is dropped when a later invocation has started
success_fenced(id, data) ==
    /\ IF id = nCalls
       THEN weather' = data /\ localStorage' = Item(Trim(calls[id].q))
       ELSE UNCHANGED <<weather, localStorage>>
    /\ loading' = FALSE
    /\ calls' = Overtake(id)
    /\ last' = [op |-> "json", id |-> id, q |-> calls[id].q, data |-> data]
    /\ UNCHANGED <<toasts, timers, now>>

\* mutant: the query is stored only when nothing is stored yet
success_storeOnce(id, data) ==
    /\ weather' = data
    /\ localStorage' = IF localStorage.present THEN localStorage
                       ELSE Item(Trim(calls[id].q))
    /\ loading' = FALSE
    /\ calls' = Overtake(id)
    /\ last' = [op |-> "json", id |-> id, q |-> calls[id].q, data |-> data]
    /\ UNCHANGED <<toasts, timers, now>>

\* mutant: localStorage.setItem('weather_last_city', q), without trim()
success_untrimmed(id, data) ==
    /\ weather' = data
    /\ localStorage' = Item(calls[id].q)
    /\ loading' = FALSE
    /\ calls' = Overtake(id)
    /\ last' = [op |-> "json", id |-> id, q |-> calls[id].q, data |-> data]
    /\ UNCHANGED <<toasts, timers, now>>

\* setWeather(data); localStorage.setItem('weather_last_city', q.trim()), and
\* the finally block
success(id, data) ==
    /\ weather' = data
    /\ localStorage' = Item(Trim(calls[id].q))
    /\ loading' = FALSE
    /\ calls' = Overtake(id)
    /\ last' = [op |-> "json", id |-> id, q |-> calls[id].q, data |-> data]
    /\ UNCHANGED <<toasts, timers, now>>

\* the rest of the try block once `data` is there
classify(id, data) ==
    IF throwsOnRead(data) THEN catch(id, ReadError)
    ELSE IF isFailure(data) THEN apiError(id, data)
    ELSE success(id, data)

\* await fetch(url) resolves: res.json() is called
FetchResolves(id) ==
    /\ id \in DOMAIN calls
    /\ calls[id].pc = "fetch"
    /\ calls' = [calls EXCEPT ![id].pc = "json"]
    /\ last' = [op |-> "response", id |-> id]
    /\ UNCHANGED <<mounted, location, localStorage, weather, loading, query,
                   toasts, timers, locating, now, effect, nCalls, nRequests>>
    /\ UNCHANGED <<env, proxyVars, viewVars, geoVars>>

\* await fetch(url) rejects
FetchRejects(id) ==
    /\ id \in DOMAIN calls
    /\ calls[id].pc = "fetch"
    /\ \E err \in FetchErrors : catch(id, err)
    /\ UNCHANGED <<mounted, location, query, locating, effect, nCalls, nRequests>>
    /\ UNCHANGED <<env, proxyVars, viewVars, geoVars>>

\* await res.json() resolves with data
JsonResolves(id) ==
    /\ id \in DOMAIN calls
    /\ calls[id].pc = "json"
    /\ \E data \in ResponseBodies(calls[id].url) : classify(id, data)
    /\ UNCHANGED <<mounted, location, query, locating, effect, nCalls, nRequests>>
    /\ UNCHANGED <<env, proxyVars, viewVars, geoVars>>

\* await res.json() rejects: the body is not JSON
JsonRejects(id) ==
    /\ id \in DOMAIN calls
    /\ calls[id].pc = "json"
    /\ catch(id, SyntaxError)
    /\ UNCHANGED <<mounted, location, query, locating, effect, nCalls, nRequests>>
    /\ UNCHANGED <<env, proxyVars, viewVars, geoVars>>

(***************************************************************************)
(* Handlers of the component                                               *)
(***************************************************************************)
\* mutant: the saved city is ignored
InitEffect_ignoreSaved ==
    /\ effect = "pending"
    /\ effect' = "done"
    /\ query' = London
    /\ fetchWeather(London)
    /\ UNCHANGED <<mounted, location, locating>>
    /\ UNCHANGED <<env, proxyVars, viewVars, geoVars>>

\* the init effect: restore the last city, default to London, fetch it
InitEffect ==
    /\ effect = "pending"
    /\ effect' = "done"
    /\ LET saved == IF localStorage.present THEN localStorage.value ELSE <<>>
           initial == IF saved = <<>> THEN London ELSE saved
       IN  /\ query' = initial
           /\ fetchWeather(initial)
    /\ UNCHANGED <<mounted, location, locating>>
    /\ UNCHANGED <<env, proxyVars, viewVars, geoVars>>

\* onChange of the search box: setQuery(e.target.value)
SetQuery(q) ==
    /\ effect = "done"
    /\ query' = q
    /\ UNCHANGED <<mounted, location, localStorage, weather, loading, toasts,
                   timers, locating, now, effect, calls, nCalls, nRequests, last>>
    /\ UNCHANGED <<env, proxyVars, viewVars, geoVars>>

\* onSubmit of the search form
handleSearch ==
    /\ effect = "done"
    /\ fetchWeather(query)
    /\ UNCHANGED <<mounted, location, query, locating, effect>>
    /\ UNCHANGED <<env, proxyVars, viewVars, geoVars>>

\* the dismiss button of the toast at position i: onClose(toast.id)
CloseToast(i) ==
    /\ i \in DOMAIN toasts
    /\ toasts' = removeToast(toasts, toasts[i].id)
    /\ timers' = renderToasts(timers, toasts')
    /\ UNCHANGED <<mounted, location, localStorage, weather, loading, query,
                   locating, now, effect, calls, nCalls, nRequests, last>>
    /\ UNCHANGED <<env, proxyVars, viewVars, geoVars>>

\* the timeout of the ToastNotification of key k expires: onClose(toast.id)
TimerFires(k) ==
    /\ k \in DOMAIN timers
    /\ toasts' = removeToast(toasts, k)
    /\ timers' = renderToasts(timers, toasts')
    /\ UNCHANGED <<mounted, location, localStorage, weather, loading, query,
                   locating, now, effect, calls, nCalls, nRequests, last>>
    /\ UNCHANGED <<env, proxyVars, viewVars, geoVars>>

\* the positions the browser can report (whole degrees of one digit)
Positions == {[coords |-> [latitude |-> 5, longitude |-> 0 - 3]]}

\* the codes of a GeolocationPositionError: PERMISSION_DENIED,
\* POSITION_UNAVAILABLE, TIMEOUT (the 10 s of the options)
PositionErrorCodes == {1, 2, 3}

\* mutant: the error callback leaves the spinner on
PositionError_keepLocating(code) ==
    /\ geoRequest = "pending"
    /\ geoRequest' = "none"
    /\ enqueue(DeniedMsg, "warning")
    /\ UNCHANGED locating
    /\ UNCHANGED <<mounted, location, localStorage, weather, loading, query, effect,
                   calls, nCalls, nRequests, last, navigator, nLocates>>
    /\ UNCHANGED <<env, proxyVars, viewVars>>

\* the click on the locate button (disabled while locating)
handleLocateMe ==
    /\ effect = "done"
    /\ ~locating
    /\ nLocates < MaxLocates
    /\ nLocates' = nLocates + 1
    /\ IF ~navigator.geolocation
       THEN /\ enqueue(UnsupportedMsg, "warning")
            /\ UNCHANGED <<locating, geoRequest>>
       ELSE /\ locating' = TRUE
            /\ geoRequest' = "pending"
            /\ UNCHANGED <<toasts, timers, now>>
    /\ UNCHANGED <<mounted, location, localStorage, weather, loading, query, effect,
                   calls, nCalls, nRequests, last, navigator>>
    /\ UNCHANGED <<env, proxyVars, viewVars>>

\* the success callback of getCurrentPosition
PositionSuccess(pos) ==
    /\ geoRequest = "pending"
    /\ geoRequest' = "none"
    /\ query' = coordsOf(pos)
    /\ fetchWeather(coordsOf(pos))
    /\ locating' = FALSE
    /\ UNCHANGED <<mounted, location, effect, navigator, nLocates>>
    /\ UNCHANGED <<env, proxyVars, viewVars>>

\* the error callback of getCurrentPosition: denial, no position, or timeout
PositionError(code) ==
    /\ geoRequest = "pending"
    /\ geoRequest' = "none"
    /\ enqueue(DeniedMsg, "warning")
    /\ locating' = FALSE
    /\ UNCHANGED <<mounted, location, localStorage, weather, loading, query, effect,
                   calls, nCalls, nRequests, last, navigator, nLocates>>
    /\ UNCHANGED <<env, proxyVars, viewVars>>

\* the page is loaded again: a new component instance (its counters and the
\* clock readings start over), the same browser, server and localStorage
Reload ==
    /\ effect = "done"
    /\ weather' = Null
    /\ loading' = FALSE
    /\ query' = <<>>
    /\ toasts' = <<>>
    /\ timers' = <<>>
    /\ locating' = FALSE
    /\ geoRequest' = "none"
    /\ nLocates' = 0
    /\ now' = 0
    /\ effect' = "pending"
    /\ calls' = <<>>
    /\ nCalls' = 0
    /\ nRequests' = 0
    /\ last' = [op |-> "mount"]
    /\ UNCHANGED <<mounted, location, localStorage, navigator>>
    /\ UNCHANGED <<env, proxyVars, viewVars>>

\* the ids toasts can get: each fetchWeather enqueues at most two toasts, each
\* handleLocateMe at most one
ToastIds == 0..(2 * MaxCalls + MaxLocates)

Next ==
    \/ InitEffect
    \/ \E q \in Inputs : SetQuery(q)
    \/ handleSearch
    \/ \E id \in 1..MaxCalls : FetchResolves(id)
    \/ \E id \in 1..MaxCalls : FetchRejects(id)
    \/ \E id \in 1..MaxCalls : JsonResolves(id)
    \/ \E id \in 1..MaxCalls : JsonRejects(id)
    \/ \E i \in 1..Len(toasts) : CloseToast(i)
    \/ \E k \in ToastIds : TimerFires(k)

\* the search flow (load, typing, submit, the answers, the toasts) in every
\* deployment
Spec == Init /\ [][Next]_vars

\* the deployed page of the component of line 694 in a browser with or without
\* the Geolocation API, nothing stored at first
InitPage ==
    /\ mounted = 2
    /\ location = Deployed
    /\ env = "server-key"
    /\ localStorage = NoItem
    /\ navigator \in Navigators
    /\ InitClient
    /\ InitProxy
    /\ InitView

NextPage ==
    \/ Next
    \/ handleLocateMe
    \/ \E pos \in Positions : PositionSuccess(pos)
    \/ \E code \in PositionErrorCodes : PositionError(code)
    \/ Reload

\* everything that page does: the search flow, the locate button, reloads
SpecPage == InitPage /\ [][NextPage]_vars

\* a timeout that stays pending expires, and a request that stays outstanding
\* is answered or fails
Fairness ==
    /\ \A k \in ToastIds : WF_vars(TimerFires(k))
    /\ \A id \in 1..MaxCalls :
          /\ WF_vars(FetchResolves(id) \/ FetchRejects(id))
          /\ WF_vars(JsonResolves(id) \/ JsonRejects(id))

\* the deployed page of the component of line 694, with nothing stored; the
\* proxy's server has its key
InitFair ==
    /\ \E d \in Deployments :
          /\ d.location = Deployed
          /\ d.mounted = 2
          /\ d.env # Undefined
          /\ mounted = d.mounted
          /\ location = d.location
          /\ env = d.env
    /\ localStorage = NoItem
    /\ navigator = [geolocation |-> TRUE]
    /\ InitClient
    /\ InitProxy
    /\ InitView

SpecFair == InitFair /\ [][Next]_vars /\ Fairness

(***************************************************************************)
(* The proxy handler as a process: one invocation runs lines 2-17 up to    *)
(* await fetch(...), then continues after each of its two awaits.          *)
(***************************************************************************)
\* what a client can send as the `query` parameter
Params == {NoParam, Param(<<>>), Param(<<"a">>), Param(<<" ", "b">>)}

Invoke(id, rec) ==
    [i \in DOMAIN invocations \cup {id} |-> IF i = id THEN rec ELSE invocations[i]]

\* how the upstream call of an invocation went (history): not made, in flight,
\* fetch rejected, body not JSON, or body parsed to data
NotCalled == [kind |-> "not called"]
InFlight == [kind |-> "in flight"]
Rejected == [kind |-> "rejected"]
Unparsable == [kind |-> "unparsable"]
Parsed(data) == [kind |-> "parsed", data |-> data]

\* res.status(...).json(...): the invocation ends with this response
respond(id, response, outcome) ==
    invocations' = [invocations EXCEPT ![id].pc = "done", ![id].response = response,
                                       ![id].outcome = outcome]

\* mutant: fetch is called before the two guards
handler_fetchFirst(param) ==
    /\ nInvocations < MaxInvocations
    /\ nInvocations' = nInvocations + 1
    /\ invocations' =
          Invoke(nInvocations + 1,
                 IF handlerGuard(param, env) # NoResponse
                 THEN [param |-> param, pc |-> "done",
                       upstream |-> <<UpstreamUrl(env, <<>>)>>,
                       outcome |-> NotCalled,
                       response |-> handlerGuard(param, env)]
                 ELSE [param |-> param, pc |-> "fetch",
                       upstream |-> <<UpstreamUrl(env, param.value)>>,
                       outcome |-> InFlight,
                       response |-> NoResponse])
    /\ UNCHANGED <<clientVars, viewVars, env>>

\* handler(req, res) up to its first await; `upstream` lists the urls it fetched
handler(param) ==
    /\ nInvocations < MaxInvocations
    /\ nInvocations' = nInvocations + 1
    /\ invocations' =
          Invoke(nInvocations + 1,
                 IF handlerGuard(param, env) # NoResponse
                 THEN [param |-> param, pc |-> "done", upstream |-> <<>>,
                       outcome |-> NotCalled,
                       response |-> handlerGuard(param, env)]
                 ELSE [param |-> param, pc |-> "fetch",
                       upstream |-> <<UpstreamUrl(env, param.value)>>,
                       outcome |-> InFlight,
                       response |-> NoResponse])
    /\ UNCHANGED <<clientVars, viewVars, env>>

\* await fetch(...) resolves: response.json() is called
UpstreamResolves(id) ==
    /\ id \in DOMAIN invocations
    /\ invocations[id].pc = "fetch"
    /\ invocations' = [invocations EXCEPT ![id].pc = "json"]
    /\ UNCHANGED <<clientVars, viewVars, env, nInvocations>>

\* await fetch(...) rejects: the catch block
UpstreamRejects(id) ==
    /\ id \in DOMAIN invocations
    /\ invocations[id].pc = "fetch"
    /\ respond(id, ProxyError, Rejected)
    /\ UNCHANGED <<clientVars, viewVars, env, nInvocations>>

\* mutant: the cache header is not set
UpstreamJsonResolves_noHeader(id) ==
    /\ id \in DOMAIN invocations
    /\ invocations[id].pc = "json"
    /\ \E data \in UpstreamBodies(invocations[id].param.value) :
          respond(id, [Relay(data) EXCEPT !.headers = NoHeaders], Parsed(data))
    /\ UNCHANGED <<clientVars, viewVars, env, nInvocations>>

\* await response.json() resolves with data: the cache header, 200, the body
UpstreamJsonResolves(id) ==
    /\ id \in DOMAIN invocations
    /\ invocations[id].pc = "json"
    /\ \E data \in UpstreamBodies(invocations[id].param.value) :
          respond(id, Relay(data), Parsed(data))
    /\ UNCHANGED <<clientVars, viewVars, env, nInvocations>>

\* mutant: response.json() is awaited outside the try block, so its rejection
\* leaves the handler as an unhandled exception and no response is sent
UpstreamJsonRejects_uncaught(id) ==
    /\ id \in DOMAIN invocations
    /\ invocations[id].pc = "json"
    /\ respond(id, NoResponse, Unparsable)
    /\ UNCHANGED <<clientVars, viewVars, env, nInvocations>>

\* await response.json() rejects: the catch block
UpstreamJsonRejects(id) ==
    /\ id \in DOMAIN invocations
    /\ invocations[id].pc = "json"
    /\ respond(id, ProxyError, Unparsable)
    /\ UNCHANGED <<clientVars, viewVars, env, nInvocations>>

InitServer ==
    /\ mounted = 2
    /\ location = Deployed
    /\ env \in {Undefined, "", "server-key"}
    /\ localStorage = NoItem
    /\ navigator = [geolocation |-> TRUE]
    /\ InitClient
    /\ InitProxy
    /\ InitView

NextProxy ==
    \/ \E param \in Params : handler(param)
    \/ \E id \in 1..MaxInvocations : UpstreamResolves(id)
    \/ \E id \in 1..MaxInvocations : UpstreamRejects(id)
    \/ \E id \in 1..MaxInvocations : UpstreamJsonResolves(id)
    \/ \E id \in 1..MaxInvocations : UpstreamJsonRejects(id)

\* the proxy endpoint alone, called by any HTTP client
SpecProxy == InitServer /\ [][NextProxy]_vars

(***************************************************************************)
(* Presentation mapping: the pure functions the render applies to          *)
(* weather.current.                                                        *)
(***************************************************************************)
\* mutant: the thresholds are exclusive
getUvLabel_exclusive(uv) ==
    IF uv < 2 THEN [label |-> "Low", color |-> "emerald"]
    ELSE IF uv < 5 THEN [label |-> "Moderate", color |-> "yellow"]
    ELSE IF uv < 7 THEN [label |-> "High", color |-> "orange"]
    ELSE IF uv < 10 THEN [label |-> "Very High", color |-> "red"]
    ELSE [label |-> "Extreme", color |-> "pink"]

\* getUvLabel(uv): the first threshold uv does not exceed.  color is the hue of
\* the class name (text-<hue>-300 at line 97, text-<hue>-400 at line 594); the
\* first tier is green at line 97 and emerald at line 594
getUvLabel(uv) ==
    IF uv <= 2 THEN [label |-> "Low", color |-> IF mounted = 1 THEN "green" ELSE "emerald"]
    ELSE IF uv <= 5 THEN [label |-> "Moderate", color |-> "yellow"]
    ELSE IF uv <= 7 THEN [label |-> "High", color |-> "orange"]
    ELSE IF uv <= 10 THEN [label |-> "Very High", color |-> "red"]
    ELSE [label |-> "Extreme", color |-> "pink"]

\* mutant: the thresholds of the humidity comment are inclusive
humidityComment_inclusive(humidity) ==
    IF humidity >= 70 THEN "High moisture"
    ELSE IF humidity >= 40 THEN "Comfortable"
    ELSE "Dry air"

\* the comment of the humidity card: humidity > 70 ? ... : humidity > 40 ? ...
humidityComment(humidity) ==
    IF humidity > 70 THEN "High moisture"
    ELSE IF humidity > 40 THEN "Comfortable"
    ELSE "Dry air"

\* String.prototype.toLowerCase, one character at a time
UpperCase == <<"A", "B", "C", "D", "E", "F", "G", "H", "I", "J", "K", "L", "M", "N", "O", "P", "Q", "R", "S", "T", "U", "V", "W", "X", "Y", "Z">>
LowerCase == <<"a", "b", "c", "d", "e", "f", "g", "h", "i", "j", "k", "l", "m", "n", "o", "p", "q", "r", "s", "t", "u", "v", "w", "x", "y", "z">>

ToLowerChar(c) ==
    IF \E i \in DOMAIN UpperCase : UpperCase[i] = c
    THEN LowerCase[CHOOSE i \in DOMAIN UpperCase : UpperCase[i] = c]
    ELSE c

toLowerCase(str) == [i \in 1..Len(str) |-> ToLowerChar(str[i])]

\* String.prototype.includes: sub occurs in str as a substring
includes(str, sub) ==
    \E i \in 0..(Len(str) - Len(sub)) : SubSeq(str, i + 1, i + Len(sub)) = sub

\* the keywords of getBackgroundGradient
KwThunder == <<"t", "h", "u", "n", "d", "e", "r">>
KwStorm == <<"s", "t", "o", "r", "m">>
KwSnow == <<"s", "n", "o", "w">>
KwBlizzard == <<"b", "l", "i", "z", "z", "a", "r", "d">>
KwSleet == <<"s", "l", "e", "e", "t">>
KwRain == <<"r", "a", "i", "n">>
KwDrizzle == <<"d", "r", "i", "z", "z", "l", "e">>
KwShower == <<"s", "h", "o", "w", "e", "r">>
KwFog == <<"f", "o", "g">>
KwMist == <<"m", "i", "s", "t">>
KwHaze == <<"h", "a", "z", "e">>
KwOvercast == <<"o", "v", "e", "r", "c", "a", "s", "t">>
KwCloudy == <<"c", "l", "o", "u", "d", "y">>
KwPartlyCloudy == <<"p", "a", "r", "t", "l", "y", " ", "c", "l", "o", "u", "d", "y">>
KwClear == <<"c", "l", "e", "a", "r">>
KwSunny == <<"s", "u", "n", "n", "y">>

StormyTheme == "from-gray-800 via-slate-800 to-gray-900"
SnowTheme == "from-indigo-300 via-blue-200 to-slate-300"
RainyTheme == "from-slate-600 via-gray-600 to-slate-800"
FoggyTheme == "from-gray-400 via-slate-400 to-gray-500"
OvercastTheme == "from-slate-700 via-gray-700 to-slate-900"
PartlyCloudyDay == "from-sky-400 via-blue-400 to-slate-500"
PartlyCloudyNight == "from-indigo-800 via-slate-800 to-gray-900"
ClearDay == "from-blue-400 via-sky-400 to-blue-600"
ClearNight == "from-indigo-900 via-purple-900 to-slate-900"
DefaultDay == "from-sky-500 via-blue-500 to-cyan-500"
DefaultNight == "from-slate-800 via-indigo-900 to-gray-900"

\* getBackgroundGradient(description, isDay): the first test that matches, in
\* the order of lines 68-82
getBackgroundGradient(description, isDay) ==
    LET desc == toLowerCase(description)
    IN  IF includes(desc, KwThunder) \/ includes(desc, KwStorm) THEN StormyTheme
        ELSE IF includes(desc, KwSnow) \/ includes(desc, KwBlizzard)
                \/ includes(desc, KwSleet) THEN SnowTheme
        ELSE IF includes(desc, KwRain) \/ includes(desc, KwDrizzle)
                \/ includes(desc, KwShower) THEN RainyTheme
        ELSE IF includes(desc, KwFog) \/ includes(desc, KwMist)
                \/ includes(desc, KwHaze) THEN FoggyTheme
        ELSE IF includes(desc, KwOvercast) \/ includes(desc, KwCloudy) THEN OvercastTheme
        ELSE IF includes(desc, KwPartlyCloudy)
             THEN IF isDay THEN PartlyCloudyDay ELSE PartlyCloudyNight
        ELSE IF includes(desc, KwClear) \/ includes(desc, KwSunny)
             THEN IF isDay THEN ClearDay ELSE ClearNight
        ELSE IF isDay THEN DefaultDay ELSE DefaultNight

\* the background of the page: the gradient of the description in the
\* component of line 192, the fixed bg-vibrant layer in the component of line 694
background(cur) ==
    IF mounted = 1
    THEN getBackgroundGradient(cur.weather_descriptions[1], cur.is_day = "yes")
    ELSE "bg-vibrant"

\* the uv_index values of the payloads rendered
UvIndexes == (0 - MaxUv)..MaxUv

\* the humidity values of the payloads rendered
Humidities == 0..MaxHumidity

\* the weather_descriptions[0] of the payloads rendered
Descriptions ==
    {<<"P", "a", "r", "t", "l", "y", " ", "c", "l", "o", "u", "d", "y">>,
     <<"P", "a", "r", "t", "l", "y", " ", "C", "l", "o", "u", "d", "y">>,
     <<"C", "l", "o", "u", "d", "y">>,
     <<"O", "v", "e", "r", "c", "a", "s", "t">>,
     <<"S", "u", "n", "n", "y">>,
     <<"C", "l", "e", "a", "r">>,
     <<"L", "i", "g", "h", "t", " ", "r", "a", "i", "n">>,
     <<"M", "i", "s", "t">>,
     <<"P", "a", "t", "c", "h", "y", " ", "s", "n", "o", "w">>,
     <<"T", "h", "u", "n", "d", "e", "r", "y", " ", "o", "u", "t", "b", "r", "e", "a", "k", "s">>,
     <<>>}

\* a `current` object
Current(uv, humidity, description, isDay) ==
    [uv_index |-> uv, humidity |-> humidity,
     weather_descriptions |-> <<description>>, is_day |-> isDay]

\* the payloads rendered: each attribute over its range, the others at one value
Currents ==
    {Current(uv, 50, KwClear, "yes") : uv \in UvIndexes}
      \cup {Current(0, h, KwClear, "yes") : h \in Humidities}
      \cup {Current(0, 50, d, isDay) : d \in Descriptions, isDay \in {"yes", "no"}}

\* a payload with this `current` is on display
InitPresentation ==
    /\ mounted \in {1, 2}
    /\ location = Loopback
    /\ env = Undefined
    /\ localStorage = NoItem
    /\ navigator = [geolocation |-> TRUE]
    /\ InitClient
    /\ InitProxy
    /\ current \in Currents
    /\ view = NoView

\* the render of a payload: the background, the UV card, the humidity card
Render ==
    /\ current # NoCurrent
    /\ view' = [kind |-> "view", uv |-> getUvLabel(current.uv_index),
                humidity |-> humidityComment(current.humidity),
                gradient |-> background(current)]
    /\ UNCHANGED <<clientVars, env, proxyVars, current>>

NextPresentation ==
    \/ Render

\* the presentation functions alone, over every payload in the bounds
SpecPresentation == InitPresentation /\ [][NextPresentation]_vars

(***************************************************************************)
(* Properties                                                              *)
(***************************************************************************)
\* this step loads the page again, abandoning the fetches of the old page
Unloads == effect = "done" /\ effect' = "pending"

\* this step ends the invocation id of fetchWeather
Settles(id) == id \in DOMAIN calls /\ id \notin DOMAIN calls' /\ ~Unloads

\* this step appends exactly one error toast with this message
Enqueues(message) ==
    /\ Len(toasts') = Len(toasts) + 1
    /\ SubSeq(toasts', 1, Len(toasts)) = toasts
    /\ toasts'[Len(toasts')].message = message
    /\ toasts'[Len(toasts')].type = "error"

\* the three outcomes of the step that ends an invocation, by what the step does
IsSuccess == last'.op = "json" /\ weather' = last'.data
IsApiError ==
    /\ last'.op = "json"
    /\ isFailure(last'.data)
    /\ \E info \in Infos \cup {BadRequest.body.error.info, ServerError.body.error.info,
                               ProxyError.body.error.info, NotFoundMsg, InvalidKeyMsg,
                               UnknownErrorMsg} : Enqueues(info)
IsTransportFailure ==
    /\ last'.op = "catch"
    /\ (Enqueues(FailedMsg) \/ Enqueues(NetworkErrorMsg))

ExactlyOneOutcome ==
    \/ IsSuccess /\ ~IsApiError /\ ~IsTransportFailure
    \/ ~IsSuccess /\ IsApiError /\ ~IsTransportFailure
    \/ ~IsSuccess /\ ~IsApiError /\ IsTransportFailure

\* C1: an invocation of fetchWeather with a query whose trimmed form is not
\* empty issues one request when it starts and none later, stays suspended
\* until the one step that ends it, and that step is exactly one of Success
\* (weather is the body), Typed API error (the body has success === false, an
\* error toast) and Transport failure (something threw, the failure toast).
C1_ExactlyOneOutcome ==
    [][/\ (nCalls' = nCalls + 1 /\ Trim(last'.q) # <<>>) =>
            /\ nRequests' = nRequests + 1
            /\ nCalls' \in DOMAIN calls'
            /\ weather' = Null
       /\ (nCalls' = nCalls) => (nRequests' = nRequests)
       /\ DOMAIN calls' \subseteq DOMAIN calls \cup {nCalls'}
       /\ \A id \in DOMAIN calls : Settles(id) => ExactlyOneOutcome
      ]_vars

\* a search for " a " has ended in Success after an earlier invocation ended
C1_Witness ==
    /\ last.op = "json"
    /\ last.id = 2
    /\ last.q = <<" ", "a", " ">>
    /\ weather = last.data
    /\ toasts # <<>>

\* C2: when the body has success === false and error.code is 615 or 101, the
\* toast fetchWeather enqueues carries the fixed message of that code, whatever
\* error.info is (absent, empty or a text).
C2_FixedMessages ==
    [][\A id \in DOMAIN calls :
          (/\ Settles(id)
           /\ last'.op = "json"
           /\ isFailure(last'.data)
           /\ last'.data.error.code \in {615, 101})
          => Enqueues(IF last'.data.error.code = 615 THEN NotFoundMsg ELSE InvalidKeyMsg)
      ]_vars

\* a 615 envelope with a text as info has been answered with the fixed message
C2_Witness ==
    /\ last.op = "json"
    /\ isFailure(last.data)
    /\ last.data.error.code = 615
    /\ last.data.error.info \notin {Undefined, ""}
    /\ toasts # <<>>
    /\ toasts[Len(toasts)].message = NotFoundMsg

\* this step ends an invocation with an envelope whose code is not 615 or 101
OtherCode ==
    /\ \E id \in DOMAIN calls : Settles(id)
    /\ last'.op = "json"
    /\ isFailure(last'.data)
    /\ last'.data.error.code \notin {615, 101}

\* C3 as stated: for any other code the message is error.info verbatim when
\* info is present, and the fallback when info is absent.
C3_Original ==
    [][OtherCode =>
          Enqueues(IF last'.data.error.info # Undefined
                   THEN last'.data.error.info
                   ELSE UnknownErrorMsg)
      ]_vars

\* C3, amended: for any other code the message is error.info verbatim when
\* info is a non-empty string, and the fallback 'An unknown API error occurred.'
\* when info is absent or the empty string.
C3_InfoOrFallback ==
    [][OtherCode =>
          Enqueues(IF last'.data.error.info \notin {Undefined, ""}
                   THEN last'.data.error.info
                   ELSE UnknownErrorMsg)
      ]_vars

\* an envelope with another code and info "" has been answered with the fallback
C3_Witness ==
    /\ last.op = "json"
    /\ isFailure(last.data)
    /\ last.data.error.code \notin {615, 101}
    /\ last.data.error.info = ""
    /\ toasts # <<>>
    /\ toasts[Len(toasts)].message = UnknownErrorMsg

\* C4: weather_last_city changes only in a step that ends an invocation in
\* Success, and that step writes the trimmed query of that invocation; a typed
\* error, a transport failure and a call with an empty query leave it as it is.
C4_PersistOnSuccessOnly ==
    [][/\ (localStorage' # localStorage) =>
            \E id \in DOMAIN calls : Settles(id) /\ IsSuccess /\ ~isFailure(last'.data)
       /\ \A id \in DOMAIN calls :
            (Settles(id) /\ last'.op = "json" /\ ~isFailure(last'.data))
               => localStorage' = Item(Trim(calls[id].q))
      ]_vars

\* the search for " a " succeeded and "a" is what is stored
C4_Witness ==
    /\ last.op = "json"
    /\ last.q = <<" ", "a", " ">>
    /\ ~isFailure(last.data)
    /\ localStorage = Item(<<"a">>)

\* this step ends an invocation otherwise than in Success
NonSuccess == last'.op = "catch" \/ (last'.op = "json" /\ isFailure(last'.data))

\* this step appends exactly one toast
EnqueuesOne ==
    /\ Len(toasts') = Len(toasts) + 1
    /\ SubSeq(toasts', 1, Len(toasts)) = toasts

C6_LoadingClearsWeather ==
    [][/\ loading => weather = Null
       /\ loading' => weather' = Null
       /\ (nCalls' = nCalls + 1 /\ last'.sent) => (loading' = TRUE /\ weather' = Null)
      ]_vars

\* a fetch has started after the fetch for London had succeeded: its payload
\* is cleared while loading is raised
C6_Witness ==
    /\ last.op = "fetchWeather"
    /\ last.sent
    /\ localStorage = Item(London)
    /\ loading = TRUE
    /\ weather = Null

\* C7: the request of every suspended fetch goes to the provider with the
\* client's credential exactly when the host is a loopback host, and to
\* /api/weather without a credential otherwise.
C7_EndpointSelection ==
    \A id \in DOMAIN calls :
        IF location.hostname \in {"localhost", "127.0.0.1"}
        THEN /\ calls[id].url.path = "http://api.weatherstack.com/current"
             /\ calls[id].url.access_key = API_KEY
        ELSE /\ calls[id].url.path = "/api/weather"
             /\ "access_key" \notin DOMAIN calls[id].url

\* the same, for the component of line 694 alone (this holds)
C7_EndpointSelectionOfLine694 == mounted = 2 => C7_EndpointSelection

\* C8: fetchWeather called with an empty or whitespace-only query issues no
\* request and leaves weather, loading, the toasts and weather_last_city as
\* they are.
C8_EmptyQueryNoop ==
    [][(nCalls' = nCalls + 1 /\ Trim(last'.q) = <<>>) =>
          /\ nRequests' = nRequests
          /\ calls' = calls
          /\ UNCHANGED <<weather, loading, toasts, localStorage>>
      ]_vars

\* a search for " " was made while a payload was displayed, and it still is
C8_Witness ==
    /\ last.op = "fetchWeather"
    /\ last.q = <<" ">>
    /\ ~last.sent
    /\ weather # Null
    /\ nRequests = 1

\* C9: an invocation of the proxy handler whose query parameter is missing or
\* empty ends at once with status 400 and the bad_request body and fetches
\* nothing upstream, whatever WEATHER_KEY is.
C9_BadRequest ==
    \A id \in DOMAIN invocations :
        MissingQuery(invocations[id].param) =>
            /\ invocations[id].pc = "done"
            /\ invocations[id].response.status = 400
            /\ invocations[id].response.body.success = FALSE
            /\ invocations[id].response.body.error.code = 0
            /\ invocations[id].response.body.error.type = "bad_request"
            /\ invocations[id].upstream = <<>>

\* the handler has been invoked without the parameter and with an empty one
\* on a server whose WEATHER_KEY is set
C9_Witness ==
    /\ env = "server-key"
    /\ \E id \in DOMAIN invocations : invocations[id].param = NoParam
    /\ \E id \in DOMAIN invocations : invocations[id].param = Param(<<>>)

\* C10: an invocation with a query parameter on a server whose WEATHER_KEY is
\* unset or empty ends at once with status 500 and type server_error and
\* fetches nothing upstream.
C10_ServerError ==
    \A id \in DOMAIN invocations :
        (~MissingQuery(invocations[id].param) /\ env \in {Undefined, ""}) =>
            /\ invocations[id].pc = "done"
            /\ invocations[id].response.status = 500
            /\ invocations[id].response.body.success = FALSE
            /\ invocations[id].response.body.error.type = "server_error"
            /\ invocations[id].upstream = <<>>

\* the handler has been invoked with query "a" on a server without WEATHER_KEY
C10_Witness ==
    /\ env = Undefined
    /\ \E id \in DOMAIN invocations :
          /\ invocations[id].param = Param(<<"a">>)
          /\ invocations[id].response.status = 500

\* C11: with the query present and WEATHER_KEY configured, an invocation whose
\* upstream fetch rejected or whose upstream body did not parse ends with a
\* response, of status 502 and type proxy_error, never 200.
C11_ProxyError ==
    \A id \in DOMAIN invocations :
        (/\ ~MissingQuery(invocations[id].param)
         /\ ~MissingKey(env)
         /\ invocations[id].outcome \in {Rejected, Unparsable}) =>
            /\ invocations[id].pc = "done"
            /\ invocations[id].response # NoResponse
            /\ invocations[id].response.status = 502
            /\ invocations[id].response.status # 200
            /\ invocations[id].response.body.success = FALSE
            /\ invocations[id].response.body.error.type = "proxy_error"

\* one invocation has ended on a rejected fetch and another on an unparsable body
C11_Witness ==
    /\ \E id \in DOMAIN invocations :
          invocations[id].outcome = Rejected /\ invocations[id].pc = "done"
    /\ \E id \in DOMAIN invocations :
          invocations[id].outcome = Unparsable /\ invocations[id].pc = "done"

\* C12: an invocation whose upstream body parsed ends with status 200, the
\* parsed body as it is (error envelopes included) and the Cache-Control header
\* s-maxage=300, stale-while-revalidate=600; no response of status 400, 500 or
\* 502 carries that header.
C12_Relay ==
    \A id \in DOMAIN invocations :
        /\ invocations[id].outcome.kind = "parsed" =>
              /\ invocations[id].pc = "done"
              /\ invocations[id].response.status = 200
              /\ invocations[id].response.body = invocations[id].outcome.data
              /\ invocations[id].response.headers =
                    {<<"Cache-Control", "s-maxage=300, stale-while-revalidate=600">>}
        /\ (/\ invocations[id].pc = "done"
            /\ invocations[id].response.status \in {400, 500, 502}) =>
              \A h \in invocations[id].response.headers : h[1] # "Cache-Control"

\* an error envelope of the provider has been relayed with status 200, and
\* another invocation has ended with status 502
C12_Witness ==
    /\ \E id \in DOMAIN invocations :
          /\ invocations[id].outcome.kind = "parsed"
          /\ isFailure(invocations[id].outcome.data)
          /\ invocations[id].response.status = 200
    /\ \E id \in DOMAIN invocations :
          /\ invocations[id].pc = "done"
          /\ invocations[id].response.status = 502

\* C13 as stated: every invocation that has ended made exactly one upstream
\* call.
C13_Original ==
    \A id \in DOMAIN invocations :
        invocations[id].pc = "done" => Len(invocations[id].upstream) = 1

\* C13: an invocation makes one upstream call when the query is present and
\* WEATHER_KEY is configured, and none otherwise (the 400 and 500 responses are
\* sent before any call); never more than one.
C13_AtMostOneUpstreamCall ==
    \A id \in DOMAIN invocations :
        /\ Len(invocations[id].upstream) <= 1
        /\ Len(invocations[id].upstream) = 1 <=>
              (~MissingQuery(invocations[id].param) /\ ~MissingKey(env))
        /\ invocations[id].response.status \in {400, 500} =>
              invocations[id].upstream = <<>>

\* one invocation has ended after its one upstream call, another has ended
\* with status 400 without any
C13_Witness ==
    /\ \E id \in DOMAIN invocations :
          /\ invocations[id].pc = "done"
          /\ Len(invocations[id].upstream) = 1
    /\ \E id \in DOMAIN invocations :
          /\ invocations[id].response.status = 400
          /\ invocations[id].upstream = <<>>

\* C20: for every integer uv, getUvLabel gives Low for uv <= 2, Moderate for
\* 2 < uv <= 5, High for 5 < uv <= 7, Very High for 7 < uv <= 10 and Extreme for
\* uv > 10; so 2 is Low, 3 Moderate, 7 High, 8 Very High and 11 Extreme.
C20_UvLabel ==
    view # NoView =>
        LET uv == current.uv_index
            label == view.uv.label
        IN  /\ uv <= 2 => label = "Low"
            /\ (2 < uv /\ uv <= 5) => label = "Moderate"
            /\ (5 < uv /\ uv <= 7) => label = "High"
            /\ (7 < uv /\ uv <= 10) => label = "Very High"
            /\ uv > 10 => label = "Extreme"
            /\ uv = 2 => label = "Low"
            /\ uv = 3 => label = "Moderate"
            /\ uv = 7 => label = "High"
            /\ uv = 8 => label = "Very High"
            /\ uv = 11 => label = "Extreme"

\* the UV card has been rendered for the boundary value 7
C20_Witness ==
    /\ view # NoView
    /\ current.uv_index = 7
    /\ view.uv.label = "High"

\* C14: the ids of the toasts in the queue are pairwise distinct and strictly
\* increasing from the oldest to the newest, also for two toasts enqueued at
\* the same reading of the clock.
C14_UniqueMonotonicIds ==
    \A i, j \in DOMAIN toasts : i < j => toasts[i].id < toasts[j].id

\* the queue without its element at position i
RemoveAt(queue, i) ==
    [j \in 1..(Len(queue) - 1) |-> IF j < i THEN queue[j] ELSE queue[j + 1]]

\* C15: every step that changes the queue of a mounted page either appends one
\* toast behind the others, or removes the toast at one position and leaves
\* every other toast in the queue in its previous order.
C15_OrderedQueue ==
    [][(toasts' # toasts /\ ~Unloads) =>
          \/ /\ Len(toasts') = Len(toasts) + 1
             /\ SubSeq(toasts', 1, Len(toasts)) = toasts
          \/ \E i \in DOMAIN toasts : toasts' = RemoveAt(toasts, i)]_vars

\* C16: every toast in the queue leaves it eventually, and as long as it is in
\* the queue its timeout is pending and is the one set when it was mounted,
\* whatever is enqueued or removed in the meantime.
C16_ToastsExpire ==
    /\ [](\A k \in Keys(toasts) : k \in DOMAIN timers /\ timers[k].set = 1)
    /\ \A k \in ToastIds : (k \in Keys(toasts)) ~> (k \notin Keys(toasts))

\* two fetches have failed (nothing is stored), the toast of the first has
\* been removed, and the toast of the second is in the queue with the timeout
\* of its mount
C16_Witness ==
    /\ localStorage = NoItem
    /\ nRequests = 2
    /\ calls = <<>>
    /\ Len(toasts) = 1
    /\ toasts[1].id = 1
    /\ DOMAIN timers = {1}
    /\ timers[1].set = 1

\* this step starts one fetch for q and nothing else is issued
StartsOneFetch(q) ==
    /\ nCalls' = nCalls + 1
    /\ nRequests' = nRequests + 1
    /\ DOMAIN calls' = DOMAIN calls \cup {nCalls'}
    /\ calls'[nCalls'].q = q
    /\ calls'[nCalls'].pc = "fetch"

\* C17: the step of the init effect sets the query to the stored
\* weather_last_city when there is a non-empty one and to London when nothing
\* is stored, and starts one fetch for that query.  A fetch that ends in
\* Success stores its trimmed query and a reload keeps what is stored, so the
\* next load starts with the query of that fetch.
C17_InitialLoad ==
    [][/\ (effect = "pending" /\ effect' = "done") =>
            /\ (localStorage.present /\ localStorage.value # <<>>) =>
                  (query' = localStorage.value /\ StartsOneFetch(localStorage.value))
            /\ ~localStorage.present =>
                  (query' = <<"L", "o", "n", "d", "o", "n">>
                   /\ StartsOneFetch(<<"L", "o", "n", "d", "o", "n">>))
            /\ localStorage' = localStorage
       /\ Unloads => localStorage' = localStorage
       /\ \A id \in DOMAIN calls :
            (Settles(id) /\ last'.op = "json" /\ ~isFailure(last'.data))
               => localStorage' = Item(Trim(calls[id].q))
      ]_vars

\* the page has been loaded again after the search for " a " succeeded: the
\* query is "a" and the first fetch of the new page is for "a"
C17_Witness ==
    /\ effect = "done"
    /\ query = <<"a">>
    /\ localStorage = Item(<<"a">>)
    /\ last = [op |-> "fetchWeather", id |-> 1, q |-> <<"a">>, sent |-> TRUE]

\* this step appends exactly one warning toast with this message
EnqueuesWarning(message) ==
    /\ Len(toasts') = Len(toasts) + 1
    /\ SubSeq(toasts', 1, Len(toasts)) = toasts
    /\ toasts'[Len(toasts')].message = message
    /\ toasts'[Len(toasts')].type = "warning"

\* this step starts no fetch and leaves the query as it is
NoFetch == nCalls' = nCalls /\ nRequests' = nRequests /\ calls' = calls /\ query' = query

\* C18: the step that ends a locate-me request either sets the query to
\* "<lat>,<lon>", starts one fetch for it and enqueues nothing, or (denial, no
\* position, timeout) enqueues one warning toast and starts no fetch, never
\* both; on a browser without geolocation the click itself enqueues one
\* warning toast and starts no fetch.  locating is false after each of them.
C18_LocateOutcomes ==
    [][/\ (geoRequest = "pending" /\ geoRequest' = "none" /\ ~Unloads) =>
            /\ locating' = FALSE
            /\ \/ /\ query' = <<"5", ",", "-", "3">>
                  /\ StartsOneFetch(<<"5", ",", "-", "3">>)
                  /\ toasts' = toasts
               \/ /\ EnqueuesWarning("Location access denied. Please allow location permissions.")
                  /\ NoFetch
            /\ ~(toasts' = toasts /\ NoFetch)
            /\ ~(toasts' # toasts /\ nRequests' # nRequests)
       /\ (nLocates' = nLocates + 1 /\ ~navigator.geolocation) =>
            /\ EnqueuesWarning("Geolocation is not supported by your browser.")
            /\ NoFetch
            /\ locating' = FALSE
            /\ geoRequest' = "none"
       /\ (nLocates' = nLocates + 1 /\ navigator.geolocation) =>
            /\ locating' = TRUE
            /\ geoRequest' = "pending"
            /\ toasts' = toasts
            /\ NoFetch
      ]_vars

\* a locate-me request has ended with a position: the query is "5,-3", the
\* fetch for it is on its way, no toast, the spinner is off
C18_Witness ==
    /\ nLocates = 1
    /\ geoRequest = "none"
    /\ ~locating
    /\ query = <<"5", ",", "-", "3">>
    /\ last = [op |-> "fetchWeather", id |-> nCalls, q |-> <<"5", ",", "-", "3">>,
               sent |-> TRUE]
    /\ nCalls \in DOMAIN calls
    /\ toasts = <<>>

\* C19: when every outstanding request is eventually answered or fails, a
\* controller with a fetch outstanding reaches a state with loading = false and
\* no fetch outstanding, whatever the outcomes; loading is false whenever no
\* fetch is outstanding; and the step that ends a fetch issues no request.
C19_ReturnsToIdle ==
    /\ (calls # <<>> \/ loading) ~> (calls = <<>> /\ ~loading)
    /\ [](calls = <<>> => ~loading)
    /\ [][\A id \in DOMAIN calls :
             Settles(id) => (nRequests' = nRequests /\ nCalls' = nCalls
                             /\ DOMAIN calls' \subseteq DOMAIN calls)]_vars

\* two searches have ended, one in Success and one with a toast, and the
\* controller is idle
C19_Witness ==
    /\ nCalls = 2
    /\ nRequests = 2
    /\ calls = <<>>
    /\ ~loading
    /\ weather # Null
    /\ toasts # <<>>

\* C21: for every integer humidity the comment of the humidity card is High
\* moisture exactly when humidity > 70, Comfortable exactly when
\* 40 < humidity <= 70 and Dry air exactly when humidity <= 40; so 70 is
\* Comfortable, 71 High moisture, 40 Dry air and 41 Comfortable.
C21_HumidityComment ==
    view # NoView =>
        LET h == current.humidity
            comment == view.humidity
        IN  /\ comment = "High moisture" <=> h > 70
            /\ comment = "Comfortable" <=> (40 < h /\ h <= 70)
            /\ comment = "Dry air" <=> h <= 40
            /\ h = 70 => comment = "Comfortable"
            /\ h = 71 => comment = "High moisture"
            /\ h = 40 => comment = "Dry air"
            /\ h = 41 => comment = "Comfortable"

\* the humidity card has been rendered for the boundary value 70
C21_Witness ==
    /\ view # NoView
    /\ current.humidity = 70
    /\ view.humidity = "Comfortable"

\* the description, lower-cased, contains this word
Mentions(word) == includes(toLowerCase(current.weather_descriptions[1]), word)

\* C22: in the component that themes its background, a description that
\* contains "partly cloudy" and no storm, snow, rain or fog keyword gets the
\* partly-cloudy theme, the day variant when is_day is "yes" and the night
\* variant otherwise.
C22_PartlyCloudyTheme ==
    (/\ view # NoView
     /\ mounted = 1
     /\ Mentions(<<"p", "a", "r", "t", "l", "y", " ", "c", "l", "o", "u", "d", "y">>)
     /\ \A word \in {KwThunder, KwStorm, KwSnow, KwBlizzard, KwSleet, KwRain,
                     KwDrizzle, KwShower, KwFog, KwMist, KwHaze} : ~Mentions(word))
    => view.gradient =
          IF current.is_day = "yes"
          THEN "from-sky-400 via-blue-400 to-slate-500"
          ELSE "from-indigo-800 via-slate-800 to-gray-900"

\* C23: a response that ends an invocation in Success becomes weather also
\* when a later invocation has been started, or has already ended, in the
\* meantime: nothing compares the response with the latest search.
C23_NoFencing ==
    [][\A id \in DOMAIN calls :
          (/\ Settles(id)
           /\ last'.op = "json"
           /\ ~isFailure(last'.data)
           /\ id < nCalls)
          => (weather' = last'.data /\ weather'.location.name = Trim(calls[id].q))
      ]_vars

\* the search for " a " was started while the fetch for London was outstanding
\* and has ended; the answer for London came last and is what weather holds
C23_Witness ==
    /\ nCalls = 2
    /\ nRequests = 2
    /\ calls = <<>>
    /\ query = <<" ", "a", " ">>
    /\ last.op = "json"
    /\ last.id = 1
    /\ last.q = <<"L", "o", "n", "d", "o", "n">>
    /\ weather = last.data
    /\ weather.location.name = <<"L", "o", "n", "d", "o", "n">>

\* C24: in every reachable state, loading is true when at least one fetch has
\* been started and has not resolved yet, also when searches overlap.
C24_LoadingCoversWindow == calls # <<>> => loading = TRUE

ProxyErrorBodies == {BadRequest.body, ServerError.body, ProxyError.body}

\* C26: when a request that went to /api/weather is answered with one of the
\* proxy's own error bodies (success false, code 0), the step that ends the
\* fetch enqueues an error toast with the body's info as it is, not the
\* failure message of the catch block, and leaves weather as it was.
C26_ProxyErrorsAreTyped ==
    [][\A id \in DOMAIN calls :
          (/\ Settles(id)
           /\ calls[id].url.path = "/api/weather"
           /\ last'.op = "json"
           /\ last'.data \in ProxyErrorBodies)
          => /\ Enqueues(last'.data.error.info)
             /\ toasts'[Len(toasts')].type = "error"
             /\ ~Enqueues(FailedMsg)
             /\ weather' = weather
             /\ weather' # last'.data
      ]_vars

\* the proxy's 502 body has been answered with its info as an error toast
C26_Witness ==
    /\ mounted = 2
    /\ last.op = "json"
    /\ last.data = ProxyError.body
    /\ toasts # <<>>
    /\ toasts[Len(toasts)].message = "Failed to reach Weatherstack API."
    /\ toasts[Len(toasts)].type = "error"
    /\ weather = Null

====
